---- MODULE Spec2Model ----
(***************************************************************************)
(* State-machine model of the DocuSense single-page client:                *)
(*   - the upload / status-poll protocol of FileUpload (Login.tsx part 2)  *)
(*     and GlobalDocumentUpload (unnamed/part_001), which share one logic; *)
(*   - the chat and document flow of EmployeeDashboard.                    *)
(* The backend (apiService) is the environment: every request is answered  *)
(* or rejected at an arbitrary later step.                                 *)
(***************************************************************************)
EXTENDS Integers, Sequences, FiniteSets, TLC

\* ------------------------------------------------------------------ bounds
\* number of uploads started during one lifetime of the upload view
MaxUploads == 2
\* every interleaving of the uploads is explored while each has counted fewer
\* than ShortPolls attempts; a document stays in "processing" beyond that only
\* when its upload is the only one of the view
ShortPolls == 2

\* session ids the backend can assign (two sessions exist at start)
MaxSessions == 3
\* user operations (select, create, delete, send, document operations) in one run
MaxOps == 3

\* names a dropped / selected file can have
FileNames == {"policy.pdf", "guide.pdf"}

\* ------------------------------------------------------- program constants
\* delay between two status fetches, in time units (setTimeout(poll, 2000))
PollDelay == 2
\* grace period a ready entry stays visible (setTimeout(..., 3000))
GraceDelay == 3

NoTimer == 0 - 1
None == "none"

\* cur of a deleteDocument call whose DocumentList is no longer the mounted one
Unmounted == 0 - 1

\* recorded when a request was rejected
Rejected == <<"rejected", 0>>

\* recorded when an error message was put before the user with alert()
Alerted == <<"alert", 0>>

VARIABLES
    uploadingFiles,       \* FileUpload state: local key -> ProcessingStatus
    loops,                \* per upload: the closure of handleFileUpload / pollProcessingStatus
    now,                  \* Date.now() as seen by the next user event
    showDocumentManager,  \* EmployeeDashboard state: the upload view is mounted
    srvDocs,              \* backend: ids of the stored documents
    documents,            \* EmployeeDashboard state: last fetched document list
    docsReqs,             \* in-flight getDocuments calls, with the list once answered
    srvSessions,          \* backend: ids of the chat sessions, most recent first
    srvMsgs,              \* backend: number of messages of each session
    sessions,             \* EmployeeDashboard state: the session list
    currentSession,       \* EmployeeDashboard state: id of the active session, NoSession for null
    messages,             \* EmployeeDashboard state: the displayed transcript
    isLoading,            \* EmployeeDashboard state: a send is in progress
    isInitialLoading,     \* EmployeeDashboard state: loadInitialData has not finished
    deletingIds,          \* DocumentList state
    calls,                \* the asynchronous calls that await a response
    ops,                  \* user operations made so far
    completed,            \* the mutations that completed and the failures, as <<kind, id>>
    app,                  \* App state: user (role, NoUser for null), isLoading
    login,                \* Login state: credentials, isLoading, error
    admin,                \* AdminDashboard state: stats, globalDocuments, isLoading, activeTab
    auth                  \* authService: the stored token and user

uploadVars == <<uploadingFiles, loops, now>>
docVars == <<showDocumentManager, srvDocs, documents, docsReqs>>
chatVars == <<srvSessions, srvMsgs, sessions, currentSession, messages, isLoading,
              isInitialLoading, deletingIds, calls, ops, completed>>
appVars == <<app, login, admin, auth>>
vars == <<uploadingFiles, loops, now, showDocumentManager, srvDocs, documents, docsReqs,
          srvSessions, srvMsgs, sessions, currentSession, messages, isLoading,
          isInitialLoading, deletingIds, calls, ops, completed, app, login, admin, auth>>

Slots == 1..MaxUploads

\* status values of the backend's Document and of the local UploadStatus
DocStatus == {"processing", "ready", "error"}
UploadStatusValues == {"uploading"} \cup DocStatus

\* message texts, by role
MsgUploading == "uploading-in-progress"
MsgServer == "server-message"
MsgDetail == "server-detail"
MsgUploadFallback == "upload-failed"
MsgTimeout == "timeout"
MsgCommError == "communication-error"

\* maxAttempts of pollProcessingStatus
maxAttempts == 60

\* ------------------------------------------------------------ upload state
\* the closure of one handleFileUpload call that has not been made yet
FreeLoop ==
    [started |-> FALSE, fileId |-> <<None, 0>>, documentId |-> <<None, 0>>,
     attempts |-> 0,
     uploadReq |-> FALSE,      \* the uploadDocument call is awaiting its response
     statusReqs |-> 0,         \* getProcessingStatus calls awaiting their response
     pollTimer |-> NoTimer,    \* time left of setTimeout(poll, 2000), or NoTimer
     graceTimer |-> NoTimer,   \* time left of the 3000 ms removal timer, or NoTimer
     fetches |-> 0,            \* getProcessingStatus calls issued (counted to maxAttempts + 1)
     callbacks |-> 0,          \* onFileUploaded invocations so far
     outcome |-> None,         \* how the upload ended, None while it has not
     detail |-> FALSE,         \* the rejection of the upload carried a detail message
     readyFor |-> 0,           \* time elapsed since the ready status was fetched
     waited |-> 0]             \* time elapsed since the last answer that scheduled a fetch

Started == {u \in Slots : loops[u].started}

\* the upload of slot v has a request in flight or a timer running
Active(v) ==
    \/ loops[v].uploadReq
    \/ loops[v].statusReqs > 0
    \/ loops[v].pollTimer # NoTimer
    \/ loops[v].graceTimer # NoTimer

\* `${file.name}-${Date.now()}`
MakeFileId(name, stamp) == <<name, stamp>>

\* the document id the backend assigns to the upload in slot u
ServerDocumentId(u) == <<"doc", u>>

\* SetEntry without the spread of prev: the other entries are dropped
SetEntryReplacingAll(prev, k, entry) ==
    [x \in {k} |-> entry]

\* setUploadingFiles(prev => ({...prev, [fileId]: entry}))
SetEntry(prev, k, entry) ==
    [x \in DOMAIN prev \cup {k} |-> IF x = k THEN entry ELSE prev[x]]

\* setUploadingFiles(prev => { const s = {...prev}; delete s[fileId]; return s })
DeleteEntry(prev, k) ==
    [x \in DOMAIN prev \ {k} |-> prev[x]]

\* {...prev[fileId], status: 'error', message}: the spread of a missing entry
\* contributes no field
ErrorOver(prev, k, msg) ==
    [document_id |-> IF k \in DOMAIN prev THEN prev[k].document_id ELSE <<None, 0>>,
     status |-> "error",
     message |-> msg]

\* the initial entry of handleFileUpload
UploadingEntry(k) ==
    [document_id |-> k, status |-> "uploading", message |-> MsgUploading]

\* error.response?.data?.detail || 'Erreur lors du telechargement securise'
UploadErrorMessage(detail) == IF detail THEN MsgDetail ELSE MsgUploadFallback

\* the entry written by the catch of handleFileUpload
UploadErrorEntry(k, detail) ==
    [document_id |-> k, status |-> "error", message |-> UploadErrorMessage(detail)]

\* the entry written from the upload response
ProcessingEntry(docId) ==
    [document_id |-> docId, status |-> "processing", message |-> MsgServer]

\* the ProcessingStatus object a status fetch returns
FetchedStatus(docId, s) ==
    [document_id |-> docId, status |-> s, message |-> MsgServer]

\* ContinuePolling with the bound compared off by one
ContinuePollingOffByOne(att) == att <= maxAttempts

\* if (attempts < maxAttempts) setTimeout(poll, 2000) else timeout
ContinuePolling(att) == att < maxAttempts

\* the fetch counter, which stops counting once it is beyond maxAttempts
CountUp(n) == IF n <= maxAttempts THEN n + 1 ELSE n

\* IssueFetch that schedules the next poll at once, as setInterval would
IssueFetchAndReschedule(l) ==
    [l EXCEPT !.statusReqs = @ + 1, !.fetches = CountUp(@), !.pollTimer = PollDelay]

\* poll(): the call of getProcessingStatus
IssueFetch(l) ==
    [l EXCEPT !.statusReqs = @ + 1, !.fetches = CountUp(@)]

\* apiService.getDocuments() is called
loadDocuments == docsReqs' = Append(docsReqs, [served |-> FALSE, documents |-> {}])

\* EmployeeDashboard onDocumentChange, passed down as onFileUploaded
onDocumentChange ==
    /\ loadDocuments
    /\ showDocumentManager' = FALSE

\* files.forEach(handleFileUpload), up to the await of each call
RECURSIVE UploadAll(_, _, _)
UploadAll(prev, files, stamp) ==
    IF files = <<>> THEN prev
    ELSE UploadAll(SetEntry(prev, MakeFileId(Head(files), stamp),
                            UploadingEntry(MakeFileId(Head(files), stamp))),
                   Tail(files), stamp)

DropChoices ==
    UNION {[1..n -> FileNames] : n \in 1..(MaxUploads - Cardinality(Started))}

\* handleFileUpload for every file of one drop or selection
StartUploads(files) ==
    LET used == Cardinality(Started) IN
    /\ showDocumentManager
    /\ \A v \in Slots : loops[v].attempts < ShortPolls
    /\ uploadingFiles' = UploadAll(uploadingFiles, files, now)
    /\ loops' = [u \in Slots |->
                   IF u > used /\ u <= used + Len(files)
                   THEN [FreeLoop EXCEPT !.started = TRUE,
                                         !.fileId = MakeFileId(files[u - used], now),
                                         !.uploadReq = TRUE]
                   ELSE loops[u]]
    /\ now' = now + 1
    /\ UNCHANGED <<showDocumentManager, srvDocs, documents, docsReqs, chatVars, appVars>>

handleDrop == \E files \in DropChoices : StartUploads(files)

handleFileSelect == \E files \in DropChoices : StartUploads(files)

\* ------------------------------------------------- handleFileUpload, part 2
\* the uploadDocument call of slot u resolves: entry -> processing, then
\* pollProcessingStatus(fileId, document_id) runs poll() up to its await
UploadResolves(u) ==
    LET l == loops[u] IN
    /\ l.uploadReq
    /\ uploadingFiles' = SetEntry(uploadingFiles, l.fileId,
                                  ProcessingEntry(ServerDocumentId(u)))
    /\ loops' = [loops EXCEPT ![u] =
                   IssueFetch([l EXCEPT !.uploadReq = FALSE,
                                        !.documentId = ServerDocumentId(u)])]
    /\ srvDocs' = srvDocs \cup {ServerDocumentId(u)}
    /\ UNCHANGED <<now, showDocumentManager, documents, docsReqs, chatVars, appVars>>

\* the uploadDocument call rejects: error.response?.data?.detail || fallback
UploadRejects(u, detail) ==
    LET l == loops[u] IN
    /\ l.uploadReq
    /\ uploadingFiles' = SetEntry(uploadingFiles, l.fileId, UploadErrorEntry(l.fileId, detail))
    /\ loops' = [loops EXCEPT ![u] =
                   [l EXCEPT !.uploadReq = FALSE, !.outcome = "upload-failed",
                             !.detail = detail]]
    /\ UNCHANGED <<now, showDocumentManager, srvDocs, documents, docsReqs, chatVars, appVars>>

\* --------------------------------------------------- pollProcessingStatus
\* the backend may still answer "processing" to the fetch of slot u
MayStayProcessing(u) ==
    \/ loops[u].attempts + 1 < ShortPolls
    \/ \A v \in Slots \ {u} : ~loops[v].started

\* AfterFetch that polls again at once
AfterFetchNoDelay(l, s) ==
    LET r == [l EXCEPT !.statusReqs = @ - 1] IN
    IF s = "ready"
    THEN [r EXCEPT !.graceTimer = GraceDelay, !.outcome = "ready"]
    ELSE IF s = "error"
    THEN [r EXCEPT !.outcome = "error"]
    ELSE IF ContinuePolling(l.attempts + 1)
    THEN [r EXCEPT !.attempts = @ + 1, !.pollTimer = 0, !.waited = 0]
    ELSE [r EXCEPT !.attempts = @ + 1, !.outcome = "timeout"]

\* the closure after a status fetch resolved with status s (try block of poll)
AfterFetch(l, s) ==
    LET r == [l EXCEPT !.statusReqs = @ - 1] IN
    IF s = "ready"
    THEN [r EXCEPT !.graceTimer = GraceDelay, !.outcome = "ready"]
    ELSE IF s = "error"
    THEN [r EXCEPT !.outcome = "error"]
    ELSE IF ContinuePolling(l.attempts + 1)
    THEN [r EXCEPT !.attempts = @ + 1, !.pollTimer = PollDelay, !.waited = 0]
    ELSE [r EXCEPT !.attempts = @ + 1, !.outcome = "timeout"]

\* WriteFetched without the timeout branch
WriteFetchedNoTimeout(prev, l, s) ==
    SetEntry(prev, l.fileId, FetchedStatus(l.documentId, s))

\* the mapping after a status fetch resolved with status s
WriteFetched(prev, l, s) ==
    LET fetched == SetEntry(prev, l.fileId, FetchedStatus(l.documentId, s)) IN
    IF s \in {"ready", "error"} \/ ContinuePolling(l.attempts + 1)
    THEN fetched
    ELSE SetEntry(fetched, l.fileId, ErrorOver(fetched, l.fileId, MsgTimeout))

\* a getProcessingStatus call of slot u resolves with status s
FetchResolves(u, s) ==
    LET l == loops[u] IN
    /\ l.statusReqs > 0
    /\ s = "processing" => MayStayProcessing(u)
    /\ uploadingFiles' = WriteFetched(uploadingFiles, l, s)
    /\ loops' = [loops EXCEPT ![u] = AfterFetch(l, s)]
    /\ UNCHANGED <<now, showDocumentManager, srvDocs, documents, docsReqs, chatVars, appVars>>

\* AfterFetchError that retries the failed fetch after the delay
AfterFetchErrorRetry(l) ==
    [l EXCEPT !.statusReqs = @ - 1, !.outcome = "comm-error", !.pollTimer = PollDelay]

\* the closure after a status fetch rejected (catch block of poll)
AfterFetchError(l) ==
    [l EXCEPT !.statusReqs = @ - 1, !.outcome = "comm-error"]

\* a getProcessingStatus call of slot u rejects
FetchRejects(u) ==
    LET l == loops[u] IN
    /\ l.statusReqs > 0
    /\ uploadingFiles' = SetEntry(uploadingFiles, l.fileId,
                                  ErrorOver(uploadingFiles, l.fileId, MsgCommError))
    /\ loops' = [loops EXCEPT ![u] = AfterFetchError(l)]
    /\ UNCHANGED <<now, showDocumentManager, srvDocs, documents, docsReqs, chatVars, appVars>>

\* PollTimerFires cancelled by the unmount of the upload view
PollTimerFiresWhileMounted(u) ==
    LET l == loops[u] IN
    /\ showDocumentManager
    /\ l.pollTimer = 0
    /\ loops' = [loops EXCEPT ![u] = IssueFetch([l EXCEPT !.pollTimer = NoTimer])]
    /\ UNCHANGED <<uploadingFiles, now, showDocumentManager, srvDocs, documents, docsReqs, chatVars, appVars>>

\* setTimeout(poll, 2000) fires: poll() runs up to its await
PollTimerFires(u) ==
    LET l == loops[u] IN
    /\ l.pollTimer = 0
    /\ loops' = [loops EXCEPT ![u] = IssueFetch([l EXCEPT !.pollTimer = NoTimer])]
    /\ UNCHANGED <<uploadingFiles, now, showDocumentManager, srvDocs, documents, docsReqs, chatVars, appVars>>

\* the 3000 ms timer fires: the entry is removed and onFileUploaded() is called
GraceTimerFires(u) ==
    LET l == loops[u] IN
    /\ l.graceTimer = 0
    /\ uploadingFiles' = DeleteEntry(uploadingFiles, l.fileId)
    /\ loops' = [loops EXCEPT ![u] =
                   [l EXCEPT !.graceTimer = NoTimer, !.callbacks = @ + 1]]
    /\ onDocumentChange
    /\ UNCHANGED <<now, srvDocs, documents, chatVars, appVars>>

\* one time unit passes: every running timer comes one unit closer
Tick ==
    /\ \E u \in Slots : loops[u].pollTimer > 0 \/ loops[u].graceTimer > 0
    /\ loops' = [u \in Slots |->
                   [loops[u] EXCEPT
                      !.pollTimer = IF @ > 0 THEN @ - 1 ELSE @,
                      !.graceTimer = IF @ > 0 THEN @ - 1 ELSE @,
                      !.readyFor = IF loops[u].graceTimer > 0 THEN @ + 1 ELSE @,
                      !.waited = IF loops[u].pollTimer > 0 THEN @ + 1 ELSE @]]
    /\ UNCHANGED <<uploadingFiles, now, showDocumentManager, srvDocs, documents, docsReqs, chatVars, appVars>>

\* DocumentManager onClose: the upload view is unmounted
onClose ==
    /\ showDocumentManager
    /\ showDocumentManager' = FALSE
    /\ UNCHANGED <<uploadingFiles, loops, now, srvDocs, documents, docsReqs, chatVars, appVars>>

\* ------------------------------------------------------------ loadDocuments
\* the backend answers a getDocuments call with its current list
DocumentsServed(i) ==
    /\ i \in 1..Len(docsReqs)
    /\ ~docsReqs[i].served
    /\ docsReqs' = [docsReqs EXCEPT ![i] = [served |-> TRUE, documents |-> srvDocs]]
    /\ UNCHANGED <<uploadingFiles, loops, now, showDocumentManager, srvDocs, documents, chatVars, appVars>>

\* the sequence q without its i-th element
RemoveAt(q, i) == [j \in 1..(Len(q) - 1) |-> IF j < i THEN q[j] ELSE q[j + 1]]

\* loadDocuments after its await: setDocuments(documentsResponse.documents)
LoadDocumentsResolves(i) ==
    /\ i \in 1..Len(docsReqs)
    /\ docsReqs[i].served
    /\ documents' = docsReqs[i].documents
    /\ docsReqs' = RemoveAt(docsReqs, i)
    /\ UNCHANGED <<uploadingFiles, loops, now, showDocumentManager, srvDocs, chatVars, appVars>>

\* loadDocuments: the call rejects, the catch only logs
LoadDocumentsRejects(i) ==
    /\ i \in 1..Len(docsReqs)
    /\ docsReqs' = RemoveAt(docsReqs, i)
    /\ completed' = completed \cup {Rejected}
    /\ UNCHANGED <<uploadingFiles, loops, now, showDocumentManager, srvDocs, documents,
                   srvSessions, srvMsgs, sessions, currentSession, messages, isLoading,
                   isInitialLoading, deletingIds, calls, ops, appVars>>

\* ------------------------------------------------- EmployeeDashboard: chat
NoSession == 0
NoDoc == <<None, 0>>

\* the messages of session s when it holds n of them
Transcript(s, n) == [i \in 1..n |-> <<s, i>>]

Listed(list) == {list[i] : i \in DOMAIN list}

\* prev.filter(s => s.id !== sessionId)
Without(list, s) == SelectSeq(list, LAMBDA x : x # s)

\* an asynchronous call up to its await: the request is sent, the values its
\* closure captured (the session id, currentSession) travel with it
Call(id, op, sid, cur) ==
    [id |-> id, op |-> op, sid |-> sid, cur |-> cur, st |-> "sent",
     n |-> 0, list |-> <<>>, docs |-> {}, doc |-> NoDoc, reloaded |-> FALSE]

Replace(c, d) == (calls \ {c}) \cup {d}

Unserved(op) == {c \in calls : c.op \in op /\ c.st = "sent"}

Answered(op) == {c \in calls : c.op \in op /\ c.st = "ok"}

InFlight(op) == {c \in calls : c.op \in op}

\* the dashboard is rendered and the user has an operation left
UserMay == ~isInitialLoading /\ ops < MaxOps

\* ---- backend
\* GET /chat/sessions and GET /documents of loadInitialData are answered
InitialDataServed(c) ==
    /\ c \in Unserved({"init"})
    /\ calls' = Replace(c, [c EXCEPT !.st = "ok", !.list = srvSessions, !.docs = srvDocs])
    /\ UNCHANGED <<appVars, uploadVars, docVars, srvSessions, srvMsgs, sessions, currentSession,
                   messages, isLoading, isInitialLoading, deletingIds, ops, completed>>

\* GET /chat/sessions/{id} is answered: the session with its messages, or not found
ChatSessionServed(c) ==
    /\ c \in Unserved({"load", "reload"})
    /\ calls' = Replace(c, IF c.sid \in Listed(srvSessions)
                           THEN [c EXCEPT !.st = "ok", !.n = srvMsgs[c.sid]]
                           ELSE [c EXCEPT !.st = "notfound"])
    /\ UNCHANGED <<appVars, uploadVars, docVars, srvSessions, srvMsgs, sessions, currentSession,
                   messages, isLoading, isInitialLoading, deletingIds, ops, completed>>

\* GET /chat/sessions is answered with the current list
ChatSessionsServed(c) ==
    /\ c \in Unserved({"list"})
    /\ calls' = Replace(c, [c EXCEPT !.st = "ok", !.list = srvSessions])
    /\ UNCHANGED <<appVars, uploadVars, docVars, srvSessions, srvMsgs, sessions, currentSession,
                   messages, isLoading, isInitialLoading, deletingIds, ops, completed>>

\* POST /chat/sessions: a new, empty session becomes the most recent one
CreateServed(c) ==
    LET new == Cardinality(DOMAIN srvMsgs) + 1 IN
    /\ c \in Unserved({"create"})
    /\ srvSessions' = <<new>> \o srvSessions
    /\ srvMsgs' = [s \in DOMAIN srvMsgs \cup {new} |->
                     IF s = new THEN 0 ELSE srvMsgs[s]]
    /\ calls' = Replace(c, [c EXCEPT !.st = "ok", !.sid = new])
    /\ UNCHANGED <<appVars, uploadVars, docVars, sessions, currentSession, messages, isLoading,
                   isInitialLoading, deletingIds, ops, completed>>

\* DELETE /chat/sessions/{id}
DeleteServed(c) ==
    /\ c \in Unserved({"delete"})
    /\ srvSessions' = Without(srvSessions, c.sid)
    /\ calls' = Replace(c, IF c.sid \in Listed(srvSessions)
                           THEN [c EXCEPT !.st = "ok"]
                           ELSE [c EXCEPT !.st = "notfound"])
    /\ UNCHANGED <<appVars, uploadVars, docVars, srvMsgs, sessions, currentSession, messages,
                   isLoading, isInitialLoading, deletingIds, ops, completed>>

\* POST /chat/sessions/{id}/messages: the question and its answer are stored and
\* the session becomes the most recent one
SendServed(c) ==
    /\ c \in Unserved({"send"})
    /\ IF c.sid \in Listed(srvSessions)
       THEN /\ srvMsgs' = [srvMsgs EXCEPT ![c.sid] = @ + 2]
            /\ srvSessions' = <<c.sid>> \o Without(srvSessions, c.sid)
            /\ calls' = Replace(c, [c EXCEPT !.st = "ok"])
       ELSE /\ calls' = Replace(c, [c EXCEPT !.st = "notfound"])
            /\ UNCHANGED <<srvMsgs, srvSessions>>
    /\ UNCHANGED <<appVars, uploadVars, docVars, sessions, currentSession, messages, isLoading,
                   isInitialLoading, deletingIds, ops, completed>>

\* DELETE /documents/{id}
DeleteDocumentServed(c) ==
    /\ c \in Unserved({"deleteDoc"})
    /\ srvDocs' = srvDocs \ {c.doc}
    /\ calls' = Replace(c, IF c.doc \in srvDocs
                           THEN [c EXCEPT !.st = "ok"]
                           ELSE [c EXCEPT !.st = "notfound"])
    /\ UNCHANGED <<appVars, uploadVars, showDocumentManager, documents, docsReqs, srvSessions,
                   srvMsgs, sessions, currentSession, messages, isLoading,
                   isInitialLoading, deletingIds, ops, completed>>

\* ---- EmployeeDashboard handlers
\* loadInitialData after its await: both lists are set and the most recent
\* session is auto-selected (loadSession is called, not awaited)
loadInitialDataResolves(c) ==
    /\ c \in Answered({"init"})
    /\ sessions' = c.list
    /\ documents' = c.docs
    /\ calls' = IF Len(c.list) > 0
                THEN Replace(c, Call(c.id, "load", c.list[1], NoSession))
                ELSE calls \ {c}
    /\ isInitialLoading' = FALSE
    /\ UNCHANGED <<appVars, uploadVars, showDocumentManager, srvDocs, docsReqs, srvSessions, srvMsgs,
                   currentSession, messages, isLoading, deletingIds, ops, completed>>

\* loadInitialData: one of the two calls rejects
loadInitialDataRejects(c) ==
    /\ c \in Unserved({"init"})
    /\ calls' = calls \ {c}
    /\ isInitialLoading' = FALSE
    /\ completed' = completed \cup {Rejected}
    /\ UNCHANGED <<appVars, uploadVars, docVars, srvSessions, srvMsgs, sessions, currentSession,
                   messages, isLoading, deletingIds, ops>>

\* Sidebar onSelectSession: loadSession(sessionId) up to its await
loadSession(s) ==
    /\ UserMay
    /\ s \in Listed(sessions)
    /\ calls' = calls \cup {Call(ops + 1, "load", s, NoSession)}
    /\ ops' = ops + 1
    /\ UNCHANGED <<appVars, uploadVars, docVars, srvSessions, srvMsgs, sessions, currentSession,
                   messages, isLoading, isInitialLoading, deletingIds, completed>>

\* loadSessionResolves that sets the messages and leaves currentSession
loadSessionResolvesMessagesOnly(c) ==
    /\ c \in Answered({"load"})
    /\ messages' = Transcript(c.sid, c.n)
    /\ calls' = calls \ {c}
    /\ completed' = completed \cup {<<"select", c.id>>}
    /\ UNCHANGED <<appVars, uploadVars, docVars, srvSessions, srvMsgs, sessions, isLoading,
                   isInitialLoading, deletingIds, ops, currentSession>>

\* loadSession after its await
loadSessionResolves(c) ==
    /\ c \in Answered({"load"})
    /\ currentSession' = c.sid
    /\ messages' = Transcript(c.sid, c.n)
    /\ calls' = calls \ {c}
    /\ completed' = completed \cup {<<"select", c.id>>}
    /\ UNCHANGED <<appVars, uploadVars, docVars, srvSessions, srvMsgs, sessions, isLoading,
                   isInitialLoading, deletingIds, ops>>

\* loadSession: the call rejects, the catch only logs
loadSessionRejects(c) ==
    /\ c \in InFlight({"load"})
    /\ calls' = calls \ {c}
    /\ completed' = completed \cup {Rejected}
    /\ UNCHANGED <<appVars, uploadVars, docVars, srvSessions, srvMsgs, sessions, currentSession,
                   messages, isLoading, isInitialLoading, deletingIds, ops>>

\* createNewChat up to its await
createNewChat ==
    /\ UserMay
    /\ Cardinality(DOMAIN srvMsgs) + Cardinality(Unserved({"create"})) < MaxSessions
    /\ calls' = calls \cup {Call(ops + 1, "create", NoSession, NoSession)}
    /\ ops' = ops + 1
    /\ UNCHANGED <<appVars, uploadVars, docVars, srvSessions, srvMsgs, sessions, currentSession,
                   messages, isLoading, isInitialLoading, deletingIds, completed>>

\* createNewChat after its await
createNewChatResolves(c) ==
    /\ c \in Answered({"create"})
    /\ sessions' = <<c.sid>> \o sessions
    /\ currentSession' = c.sid
    /\ messages' = <<>>
    /\ calls' = calls \ {c}
    /\ completed' = completed \cup {<<"create", c.sid>>}
    /\ UNCHANGED <<appVars, uploadVars, docVars, srvSessions, srvMsgs, isLoading, isInitialLoading,
                   deletingIds, ops>>

createNewChatRejects(c) ==
    /\ c \in InFlight({"create"})
    /\ calls' = calls \ {c}
    /\ completed' = completed \cup {Rejected}
    /\ UNCHANGED <<appVars, uploadVars, docVars, srvSessions, srvMsgs, sessions, currentSession,
                   messages, isLoading, isInitialLoading, deletingIds, ops>>

\* Sidebar handleDeleteSession, confirmed: deleteSession(sessionId) up to its
\* await; the closure holds the currentSession of this render
deleteSession(s) ==
    /\ UserMay
    /\ s \in Listed(sessions)
    /\ calls' = calls \cup {Call(ops + 1, "delete", s, currentSession)}
    /\ ops' = ops + 1
    /\ UNCHANGED <<appVars, uploadVars, docVars, srvSessions, srvMsgs, sessions, currentSession,
                   messages, isLoading, isInitialLoading, deletingIds, completed>>

\* deleteSession after its await
deleteSessionResolves(c) ==
    /\ c \in Answered({"delete"})
    /\ sessions' = Without(sessions, c.sid)
    /\ IF c.cur = c.sid
       THEN currentSession' = NoSession /\ messages' = <<>>
       ELSE UNCHANGED <<currentSession, messages>>
    /\ calls' = calls \ {c}
    /\ completed' = completed \cup {<<"delete", c.sid>>}
    /\ UNCHANGED <<appVars, uploadVars, docVars, srvSessions, srvMsgs, isLoading, isInitialLoading,
                   deletingIds, ops>>

deleteSessionRejects(c) ==
    /\ c \in InFlight({"delete"})
    /\ calls' = calls \ {c}
    /\ completed' = completed \cup {Rejected}
    /\ UNCHANGED <<appVars, uploadVars, docVars, srvSessions, srvMsgs, sessions, currentSession,
                   messages, isLoading, isInitialLoading, deletingIds, ops>>

\* sendMessage(content) up to its first await
sendMessage ==
    /\ currentSession # NoSession
    /\ isLoading' = TRUE
    /\ calls' = calls \cup {Call(ops + 1, "send", currentSession, currentSession)}
    /\ ops' = ops + 1
    /\ UNCHANGED <<appVars, uploadVars, docVars, srvSessions, srvMsgs, sessions, currentSession,
                   messages, isInitialLoading, deletingIds, completed>>

\* ChatInterface handleSubmit: the form of the active session, not while loading
handleSubmit ==
    /\ UserMay
    /\ ~isLoading
    /\ currentSession # NoSession
    /\ sendMessage

\* ChatInterface suggestion button: shown on the empty transcript of the active
\* session when documents exist
SuggestionClick ==
    /\ UserMay
    /\ currentSession # NoSession
    /\ Len(messages) = 0
    /\ Cardinality(documents) > 0
    /\ sendMessage

\* sendMessage after sendMessageToSession: loadSession(currentSession.id) is called
SendResolves(c) ==
    /\ c \in Answered({"send"})
    /\ calls' = Replace(c, Call(c.id, "reload", c.sid, c.cur))
    /\ UNCHANGED <<appVars, uploadVars, docVars, srvSessions, srvMsgs, sessions, currentSession,
                   messages, isLoading, isInitialLoading, deletingIds, ops, completed>>

\* sendMessage: sendMessageToSession rejects, catch and finally run
SendRejects(c) ==
    /\ c \in InFlight({"send"})
    /\ isLoading' = FALSE
    /\ calls' = calls \ {c}
    /\ completed' = completed \cup {Rejected}
    /\ UNCHANGED <<appVars, uploadVars, docVars, srvSessions, srvMsgs, sessions, currentSession,
                   messages, isInitialLoading, deletingIds, ops>>

\* the loadSession inside sendMessage resolves, then loadSessions() is called
ReloadResolves(c) ==
    /\ c \in Answered({"reload"})
    /\ currentSession' = c.sid
    /\ messages' = Transcript(c.sid, c.n)
    /\ calls' = Replace(c, [Call(c.id, "list", c.sid, c.cur) EXCEPT !.reloaded = TRUE])
    /\ UNCHANGED <<appVars, uploadVars, docVars, srvSessions, srvMsgs, sessions, isLoading,
                   isInitialLoading, deletingIds, ops, completed>>

\* the loadSession inside sendMessage rejects: its own catch logs, sendMessage
\* goes on with loadSessions()
ReloadRejects(c) ==
    /\ c \in InFlight({"reload"})
    /\ calls' = Replace(c, Call(c.id, "list", c.sid, c.cur))
    /\ completed' = completed \cup {Rejected}
    /\ UNCHANGED <<appVars, uploadVars, docVars, srvSessions, srvMsgs, sessions, currentSession,
                   messages, isLoading, isInitialLoading, deletingIds, ops>>

\* loadSessions after its await, then the finally of sendMessage
loadSessionsResolves(c) ==
    /\ c \in Answered({"list"})
    /\ sessions' = c.list
    /\ isLoading' = FALSE
    /\ calls' = calls \ {c}
    /\ UNCHANGED <<appVars, uploadVars, docVars, srvSessions, srvMsgs, currentSession, messages,
                   isInitialLoading, deletingIds, ops, completed>>

\* loadSessions rejects: its catch logs, then the finally of sendMessage
loadSessionsRejects(c) ==
    /\ c \in InFlight({"list"})
    /\ isLoading' = FALSE
    /\ calls' = calls \ {c}
    /\ completed' = completed \cup {Rejected}
    /\ UNCHANGED <<appVars, uploadVars, docVars, srvSessions, srvMsgs, sessions, currentSession,
                   messages, isInitialLoading, deletingIds, ops>>

\* ---- document manager of the dashboard
\* Sidebar onShowDocuments / onShowUpload: the manager and its views are mounted
openDocumentManager ==
    /\ ~isInitialLoading
    /\ ~showDocumentManager
    /\ showDocumentManager' = TRUE
    /\ deletingIds' = {}
    /\ calls' = {IF c.op = "deleteDoc" THEN [c EXCEPT !.cur = Unmounted] ELSE c : c \in calls}
    /\ UNCHANGED <<appVars, uploadVars, srvDocs, documents, docsReqs, srvSessions, srvMsgs, sessions,
                   currentSession, messages, isLoading, isInitialLoading, ops,
                   completed>>

\* DocumentList handleDelete, confirmed, up to its await
handleDelete(d) ==
    /\ UserMay
    /\ showDocumentManager
    /\ d \in documents
    /\ d \notin deletingIds
    /\ deletingIds' = deletingIds \cup {d}
    /\ calls' = calls \cup {[Call(ops + 1, "deleteDoc", NoSession, NoSession)
                               EXCEPT !.doc = d]}
    /\ ops' = ops + 1
    /\ UNCHANGED <<appVars, uploadVars, docVars, srvSessions, srvMsgs, sessions, currentSession,
                   messages, isLoading, isInitialLoading, completed>>

\* the finally of handleDelete: the id leaves the set of the DocumentList
\* that made the call, if it is still the mounted one
DeletingIdsWithout(c) ==
    IF c.cur = Unmounted THEN deletingIds ELSE deletingIds \ {c.doc}

\* handleDelete after its await: onDocumentDeleted(), then the finally
handleDeleteResolves(c) ==
    /\ c \in Answered({"deleteDoc"})
    /\ onDocumentChange
    /\ deletingIds' = DeletingIdsWithout(c)
    /\ calls' = calls \ {c}
    /\ completed' = completed \cup {<<"deleteDoc", c.doc[2]>>}
    /\ UNCHANGED <<appVars, uploadVars, srvDocs, documents, srvSessions, srvMsgs, sessions,
                   currentSession, messages, isLoading, isInitialLoading, ops>>

\* handleDelete: deleteDocument rejects, the alert is shown, then the finally
handleDeleteRejects(c) ==
    /\ c \in InFlight({"deleteDoc"})
    /\ deletingIds' = DeletingIdsWithout(c)
    /\ calls' = calls \ {c}
    /\ completed' = completed \cup {Rejected, Alerted}
    /\ UNCHANGED <<appVars, uploadVars, docVars, srvSessions, srvMsgs, sessions, currentSession,
                   messages, isLoading, isInitialLoading, ops>>

\* a file is dropped on the upload view and the backend stores it: the poll
\* loop of that upload is now running
UploadAccepted ==
    /\ UserMay
    /\ showDocumentManager
    /\ srvDocs' = srvDocs \cup {ServerDocumentId(ops + 1)}
    /\ calls' = calls \cup {[Call(ops + 1, "upload", NoSession, NoSession)
                               EXCEPT !.st = "ok", !.doc = ServerDocumentId(ops + 1)]}
    /\ ops' = ops + 1
    /\ UNCHANGED <<appVars, uploadVars, showDocumentManager, documents, docsReqs, srvSessions,
                   srvMsgs, sessions, currentSession, messages, isLoading,
                   isInitialLoading, deletingIds, completed>>

\* the poll loop of an upload ends with ready: onFileUploaded() is called
FileUploaded(c) ==
    /\ c \in InFlight({"upload"})
    /\ onDocumentChange
    /\ calls' = calls \ {c}
    /\ completed' = completed \cup {<<"upload", c.doc[2]>>}
    /\ UNCHANGED <<appVars, uploadVars, srvDocs, documents, srvSessions, srvMsgs, sessions,
                   currentSession, messages, isLoading, isInitialLoading, deletingIds,
                   ops>>

\* the poll loop of an upload ends with error: no callback
UploadFailed(c) ==
    /\ c \in InFlight({"upload"})
    /\ calls' = calls \ {c}
    /\ completed' = completed \cup {Rejected}
    /\ UNCHANGED <<appVars, uploadVars, docVars, srvSessions, srvMsgs, sessions, currentSession,
                   messages, isLoading, isInitialLoading, deletingIds, ops>>

\* ------------------------------------------------------- App shell and Login
NoUser == "none"
Roles == {"admin", "employee"}
NoStats == 0 - 1

\* the state a Login component has when it mounts
FreshLogin ==
    [credentials |-> [username |-> "", password |-> ""], isLoading |-> FALSE,
     error |-> None]

\* the state an AdminDashboard has when it mounts
FreshAdmin ==
    [stats |-> NoStats, globalDocuments |-> {}, isLoading |-> TRUE,
     activeTab |-> "overview",
     mounted |-> FALSE,        \* the dashboard is rendered by the App
     mount |-> 0]              \* which mounted instance this is

\* authService with nothing stored
NoAuth ==
    [token |-> FALSE, user |-> NoUser,
     verifications |-> 0,      \* verifyToken calls made
     verifyResult |-> None,    \* what verifyToken gave back: "true", "false", "threw"
     logouts |-> 0]            \* logout calls made (counted to 2)

\* App render: which view is shown
View ==
    IF app.isLoading THEN "loading"
    ELSE IF app.user = NoUser THEN "login"
    ELSE IF app.user = "admin" THEN "admin"
    ELSE "employee"

\* authService.logout(): the stored state is cleared (the registered callback
\* runs setUser(null), see Logout)
AuthCleared ==
    [auth EXCEPT !.token = FALSE, !.user = NoUser,
                 !.logouts = IF @ < 2 THEN @ + 1 ELSE @]

\* the variables of the employee dashboard, which the App shell leaves alone
idleVars == <<uploadVars, showDocumentManager, documents, docsReqs, srvSessions, srvMsgs,
              sessions, currentSession, messages, isLoading, isInitialLoading, deletingIds>>

\* the state of the EmployeeDashboard and of the views it renders
employeeVars == <<showDocumentManager, documents, docsReqs, sessions, currentSession,
                  messages, isLoading, isInitialLoading, deletingIds>>

\* the calls made by the EmployeeDashboard
EmployeeOps == {"init", "load", "send", "reload", "list", "create", "delete",
                "deleteDoc", "upload"}

\* the state an EmployeeDashboard has: when it mounts (loadInitialData is
\* awaited), and none when it is not rendered
EmployeeState(mounted) ==
    /\ showDocumentManager' = FALSE
    /\ documents' = {}
    /\ docsReqs' = <<>>
    /\ sessions' = <<>>
    /\ currentSession' = NoSession
    /\ messages' = <<>>
    /\ isLoading' = FALSE
    /\ isInitialLoading' = mounted
    /\ deletingIds' = {}

\* the EmployeeDashboard after the App rendered the view of the role
EmployeeFor(role) == EmployeeState(role \in Roles \ {"admin"})

\* AdminFor that mounts the AdminDashboard for every signed-in user
AdminForAnyRole(role) ==
    IF role # NoUser
    THEN IF admin.mounted THEN admin
         ELSE [FreshAdmin EXCEPT !.mounted = TRUE, !.mount = admin.mount + 1]
    ELSE [admin EXCEPT !.mounted = FALSE]

\* the AdminDashboard after the App rendered the view of the role: a new
\* instance mounts with the admin view, the instance unmounts with another view
AdminFor(role) ==
    IF role = "admin"
    THEN IF admin.mounted THEN admin
         ELSE [FreshAdmin EXCEPT !.mounted = TRUE, !.mount = admin.mount + 1]
    ELSE [admin EXCEPT !.mounted = FALSE]

\* the calls after the App rendered the view of the role: the mount effect of
\* a new AdminDashboard calls loadDashboardData
CallsFor(role, rest) ==
    IF role = "admin" /\ ~admin.mounted
    THEN rest \cup {Call(0, "adminLoad", NoSession, admin.mount + 1)}
    ELSE IF role \in Roles \ {"admin"}
    THEN rest \cup {Call(0, "init", NoSession, NoSession)}
    ELSE {c \in rest : c.op \notin EmployeeOps}

\* App mount effect: initializeAuth() up to its await
initializeAuth ==
    /\ ~app.initialized
    /\ IF auth.token
       THEN /\ calls' = calls \cup {Call(0, "verify", NoSession, NoSession)}
            /\ auth' = [auth EXCEPT !.verifications = @ + 1]
            /\ app' = [app EXCEPT !.initialized = TRUE]
       ELSE /\ app' = [app EXCEPT !.initialized = TRUE, !.isLoading = FALSE]
            /\ UNCHANGED <<calls, auth>>
    /\ UNCHANGED <<idleVars, srvDocs, ops, completed, login, admin>>

\* VerifyResolves that restores the stored user whatever verifyToken() gave
VerifyResolvesAlwaysRestores(c, isValid) ==
    /\ c \in InFlight({"verify"})
    /\ app' = [app EXCEPT !.user = auth.user, !.isLoading = FALSE]
    /\ auth' = [auth EXCEPT !.verifyResult = IF isValid THEN "true" ELSE "false"]
    /\ admin' = AdminFor(auth.user)
    /\ EmployeeFor(auth.user)
    /\ calls' = CallsFor(auth.user, calls \ {c})
    /\ UNCHANGED <<uploadVars, srvSessions, srvMsgs, srvDocs, ops, completed, login>>

\* initializeAuth after its await: verifyToken() gave isValid
VerifyResolves(c, isValid) ==
    LET shown == IF isValid THEN auth.user ELSE app.user IN
    /\ c \in InFlight({"verify"})
    /\ app' = [app EXCEPT !.user = shown, !.isLoading = FALSE]
    /\ auth' = [auth EXCEPT !.verifyResult = IF isValid THEN "true" ELSE "false"]
    /\ admin' = AdminFor(shown)
    /\ EmployeeFor(shown)
    /\ calls' = CallsFor(shown, calls \ {c})
    /\ UNCHANGED <<uploadVars, srvSessions, srvMsgs, srvDocs, ops, completed, login>>

\* initializeAuth: verifyToken() throws; the catch calls authService.logout(),
\* whose registered callback runs setUser(null)
VerifyRejects(c) ==
    /\ c \in InFlight({"verify"})
    /\ auth' = [AuthCleared EXCEPT !.verifyResult = "threw"]
    /\ app' = [app EXCEPT !.user = NoUser, !.isLoading = FALSE]
    /\ calls' = calls \ {c}
    /\ completed' = completed \cup {Rejected}
    /\ UNCHANGED <<idleVars, srvDocs, ops, login, admin>>

\* Login handleInputChange: one field is typed or emptied
handleInputChange(name, value) ==
    /\ View = "login"
    /\ login.credentials[name] # value
    /\ login' = [login EXCEPT !.credentials[name] = value, !.error = None]
    /\ UNCHANGED <<idleVars, srvDocs, calls, ops, completed, app, admin, auth>>

\* SubmitEnabled without the isLoading test
SubmitEnabledWhileLoading ==
    login.credentials.username # "" /\ login.credentials.password # ""

\* the submit button is not disabled
SubmitEnabled ==
    ~login.isLoading /\ login.credentials.username # "" /\ login.credentials.password # ""

\* Login handleSubmit up to its await
LoginSubmit ==
    /\ View = "login"
    /\ ops < MaxOps
    /\ SubmitEnabled
    /\ login' = [login EXCEPT !.isLoading = TRUE, !.error = None]
    /\ calls' = calls \cup {Call(ops + 1, "login", NoSession, NoSession)}
    /\ ops' = ops + 1
    /\ UNCHANGED <<idleVars, srvDocs, completed, app, admin, auth>>

\* handleSubmit after its await: authService.login stored the token and the
\* user, onLoginSuccess() runs setUser(getCurrentUser())
LoginResolves(c, role) ==
    /\ c \in InFlight({"login"})
    /\ auth' = [auth EXCEPT !.token = TRUE, !.user = role]
    /\ app' = [app EXCEPT !.user = role]
    /\ login' = [login EXCEPT !.isLoading = FALSE]
    /\ admin' = AdminFor(role)
    /\ EmployeeFor(role)
    /\ calls' = CallsFor(role, calls \ {c})
    /\ UNCHANGED <<uploadVars, srvSessions, srvMsgs, srvDocs, ops, completed>>

\* LoginRejects without the finally: isLoading stays set
LoginRejectsKeepingFlag(c) ==
    /\ c \in InFlight({"login"})
    /\ login' = [login EXCEPT !.error = "login-error"]
    /\ calls' = calls \ {c}
    /\ completed' = completed \cup {Rejected}
    /\ UNCHANGED <<idleVars, srvDocs, ops, app, admin, auth>>

\* handleSubmit: authService.login rejects, the message is shown
LoginRejects(c) ==
    /\ c \in InFlight({"login"})
    /\ login' = [login EXCEPT !.isLoading = FALSE, !.error = "login-error"]
    /\ calls' = calls \ {c}
    /\ completed' = completed \cup {Rejected}
    /\ UNCHANGED <<idleVars, srvDocs, ops, app, admin, auth>>

\* Logout that clears the stored state but leaves the user of the App
LogoutKeepingUser ==
    /\ auth' = AuthCleared
    /\ app' = app
    /\ login' = FreshLogin
    /\ admin' = AdminFor(app.user)
    /\ EmployeeFor(NoUser)
    /\ calls' = CallsFor(NoUser, calls)

\* authService.logout() with its registered callback, then the views of the
\* user unmount and a new Login mounts
Logout ==
    /\ auth' = AuthCleared
    /\ app' = [app EXCEPT !.user = NoUser]
    /\ login' = FreshLogin
    /\ admin' = AdminFor(NoUser)
    /\ EmployeeFor(NoUser)
    /\ calls' = CallsFor(NoUser, calls)

\* Header onLogout: App handleLogout
handleLogout ==
    /\ View \in Roles
    /\ ops < MaxOps
    /\ Logout
    /\ ops' = ops + 1
    /\ UNCHANGED <<uploadVars, srvSessions, srvMsgs, srvDocs, completed>>

\* the callback registered with setLogoutCallback runs: the auth service
\* logged the signed-in user out by itself
LogoutCallback ==
    /\ View \in Roles
    /\ ops < MaxOps
    /\ Logout
    /\ ops' = ops + 1
    /\ UNCHANGED <<uploadVars, srvSessions, srvMsgs, srvDocs, completed>>

\* ---------------------------------------------------------- AdminDashboard
AdminTabs == {"overview", "documents", "upload"}

\* the dashboard is rendered (not its spinner) and the user has an operation left
AdminMay == View = "admin" /\ admin.mounted /\ ~admin.isLoading

\* the AdminDashboard instance whose closure made call c is still mounted
OwnInstance(c) == admin.mounted /\ admin.mount = c.cur

\* loadDashboardData() up to its await, called by the instance of generation gen
loadDashboardData(id, gen, rest) ==
    /\ admin' = IF admin.mounted /\ admin.mount = gen
                THEN [admin EXCEPT !.isLoading = TRUE] ELSE admin
    /\ calls' = rest \cup {Call(id, "adminLoad", NoSession, gen)}

\* ---- backend
\* GET /admin/dashboard of loadDashboardData is answered
AdminDashboardServed(c) ==
    /\ c \in InFlight({"adminLoad"})
    /\ c.st \in {"sent", "docs"}
    /\ calls' = Replace(c, [c EXCEPT !.n = Cardinality(srvDocs),
                                     !.st = IF c.st = "sent" THEN "stats" ELSE "ok"])
    /\ UNCHANGED <<idleVars, srvDocs, ops, completed, appVars>>

\* GET /admin/documents/global of loadDashboardData is answered
GlobalDocumentsServed(c) ==
    /\ c \in InFlight({"adminLoad"})
    /\ c.st \in {"sent", "stats"}
    /\ calls' = Replace(c, [c EXCEPT !.docs = srvDocs,
                                     !.st = IF c.st = "sent" THEN "docs" ELSE "ok"])
    /\ UNCHANGED <<idleVars, srvDocs, ops, completed, appVars>>

\* DELETE /admin/documents/global/{id}
DeleteGlobalServed(c) ==
    /\ c \in Unserved({"adminDelete"})
    /\ srvDocs' = srvDocs \ {c.doc}
    /\ calls' = Replace(c, [c EXCEPT !.st = IF c.doc \in srvDocs THEN "ok" ELSE "notfound"])
    /\ UNCHANGED <<idleVars, ops, completed, appVars>>

\* ---- frontend
\* loadDashboardDataResolves that sets the stats and leaves the list
loadDashboardDataResolvesStatsOnly(c) ==
    /\ c \in Answered({"adminLoad"})
    /\ admin' = IF OwnInstance(c)
                THEN [admin EXCEPT !.stats = c.n, !.isLoading = FALSE]
                ELSE admin
    /\ calls' = calls \ {c}
    /\ UNCHANGED <<idleVars, srvDocs, ops, completed, app, login, auth>>

\* loadDashboardData after its await: both responses arrived
loadDashboardDataResolves(c) ==
    /\ c \in Answered({"adminLoad"})
    /\ admin' = IF OwnInstance(c)
                THEN [admin EXCEPT !.stats = c.n, !.globalDocuments = c.docs,
                                   !.isLoading = FALSE]
                ELSE admin
    /\ calls' = calls \ {c}
    /\ UNCHANGED <<idleVars, srvDocs, ops, completed, app, login, auth>>

\* loadDashboardData: one of the two requests rejects; the catch logs, the
\* finally clears the flag
loadDashboardDataRejects(c) ==
    /\ c \in InFlight({"adminLoad"})
    /\ c.st # "ok"
    /\ admin' = IF OwnInstance(c) THEN [admin EXCEPT !.isLoading = FALSE] ELSE admin
    /\ calls' = calls \ {c}
    /\ completed' = completed \cup {Rejected}
    /\ UNCHANGED <<idleVars, srvDocs, ops, app, login, auth>>

\* setActiveTab that also calls loadDashboardData
setActiveTabReloading(tab) ==
    /\ AdminMay
    /\ admin.activeTab # tab
    /\ admin' = [admin EXCEPT !.activeTab = tab, !.isLoading = TRUE]
    /\ calls' = calls \cup {Call(0, "adminLoad", NoSession, admin.mount)}
    /\ UNCHANGED <<idleVars, srvDocs, ops, completed, app, login, auth>>

\* a tab button is clicked
setActiveTab(tab) ==
    /\ AdminMay
    /\ admin.activeTab # tab
    /\ admin' = [admin EXCEPT !.activeTab = tab]
    /\ UNCHANGED <<idleVars, srvDocs, calls, ops, completed, app, login, auth>>

\* handleDeleteDocument up to its first await (the user confirmed)
handleDeleteDocument(d) ==
    /\ AdminMay
    /\ ops < MaxOps
    /\ admin.activeTab = "documents"
    /\ d \in admin.globalDocuments
    /\ calls' = calls \cup {[Call(ops + 1, "adminDelete", NoSession, admin.mount)
                               EXCEPT !.doc = d]}
    /\ ops' = ops + 1
    /\ UNCHANGED <<idleVars, srvDocs, completed, appVars>>

\* handleDeleteDocumentResolves that removes the document from the list itself
handleDeleteDocumentSplices(c) ==
    /\ c \in Answered({"adminDelete"})
    /\ admin' = IF OwnInstance(c)
                THEN [admin EXCEPT !.globalDocuments = @ \ {c.doc}] ELSE admin
    /\ calls' = calls \ {c}
    /\ completed' = completed \cup {<<"adminDelete", c.id>>}
    /\ UNCHANGED <<idleVars, srvDocs, ops, app, login, auth>>

\* handleDeleteDocument after deleteGlobalDocument resolved: loadDashboardData()
handleDeleteDocumentResolves(c) ==
    /\ c \in Answered({"adminDelete"})
    /\ loadDashboardData(c.id, c.cur, calls \ {c})
    /\ completed' = completed \cup {<<"adminDelete", c.id>>}
    /\ UNCHANGED <<idleVars, srvDocs, ops, app, login, auth>>

\* handleDeleteDocument: deleteGlobalDocument rejects, the catch logs and alerts
handleDeleteDocumentRejects(c) ==
    /\ c \in InFlight({"adminDelete"})
    /\ c.st # "ok"
    /\ calls' = calls \ {c}
    /\ completed' = completed \cup {Rejected, Alerted}
    /\ UNCHANGED <<idleVars, srvDocs, ops, appVars>>

\* a file is dropped on the upload tab and the backend stores it: the poll
\* loop of that upload is now running
GlobalUploadAccepted ==
    /\ AdminMay
    /\ ops < MaxOps
    /\ admin.activeTab = "upload"
    /\ srvDocs' = srvDocs \cup {ServerDocumentId(ops + 1)}
    /\ calls' = calls \cup {[Call(ops + 1, "adminUpload", NoSession, admin.mount)
                               EXCEPT !.st = "ok", !.doc = ServerDocumentId(ops + 1)]}
    /\ ops' = ops + 1
    /\ UNCHANGED <<idleVars, completed, appVars>>

\* the poll loop of an upload ends with ready: onUploadSuccess is loadDashboardData
GlobalFileUploaded(c) ==
    /\ c \in Answered({"adminUpload"})
    /\ loadDashboardData(c.id, c.cur, calls \ {c})
    /\ completed' = completed \cup {<<"adminUpload", c.id>>}
    /\ UNCHANGED <<idleVars, srvDocs, ops, app, login, auth>>

\* the poll loop of an upload ends with error: no callback
GlobalUploadFailed(c) ==
    /\ c \in InFlight({"adminUpload"})
    /\ calls' = calls \ {c}
    /\ completed' = completed \cup {Rejected}
    /\ UNCHANGED <<idleVars, srvDocs, ops, appVars>>

\* ------------------------------------------------------------ specification
Init ==
    /\ uploadingFiles = <<>>
    /\ loops = [u \in Slots |-> FreeLoop]
    /\ now = 1
    /\ showDocumentManager = TRUE
    /\ srvDocs = {}
    /\ documents = {}
    /\ docsReqs = <<>>
    /\ srvSessions = <<>>
    /\ srvMsgs = <<>>
    /\ sessions = <<>>
    /\ currentSession = NoSession
    /\ messages = <<>>
    /\ isLoading = FALSE
    /\ isInitialLoading = FALSE
    /\ deletingIds = {}
    /\ calls = {}
    /\ ops = 0
    /\ completed = {}
    /\ app = [user |-> "employee", isLoading |-> FALSE, initialized |-> TRUE]
    /\ login = FreshLogin
    /\ admin = FreshAdmin
    /\ auth = [NoAuth EXCEPT !.token = TRUE, !.user = "employee"]

Next ==
    \/ handleDrop
    \/ handleFileSelect
    \/ \E u \in Slots : UploadResolves(u)
    \/ \E u \in Slots, detail \in BOOLEAN : UploadRejects(u, detail)
    \/ \E u \in Slots, s \in DocStatus : FetchResolves(u, s)
    \/ \E u \in Slots : FetchRejects(u)
    \/ \E u \in Slots : PollTimerFires(u)
    \/ \E u \in Slots : GraceTimerFires(u)
    \/ Tick
    \/ onClose

Spec == Init /\ [][Next]_vars

\* fairness the scheduling gives: every request is eventually answered, time
\* passes and a due timer fires
FairSpec ==
    /\ Init
    /\ [][Next]_vars
    /\ \A u \in Slots :
         /\ WF_vars(UploadResolves(u) \/ \E d \in BOOLEAN : UploadRejects(u, d))
         /\ WF_vars(FetchRejects(u) \/ \E s \in DocStatus : FetchResolves(u, s))
         /\ WF_vars(PollTimerFires(u))
         /\ WF_vars(GraceTimerFires(u))
    /\ WF_vars(Tick)

\* the employee dashboard is mounted: loadInitialData is awaiting its responses;
\* the backend holds no session or two, and no document or one
ChatInit ==
    /\ uploadingFiles = <<>>
    /\ loops = [u \in Slots |-> FreeLoop]
    /\ now = 1
    /\ showDocumentManager = FALSE
    /\ srvDocs \in {{}, {ServerDocumentId(0)}}
    /\ documents = {}
    /\ docsReqs = <<>>
    /\ \/ srvSessions = <<>> /\ srvMsgs = <<>>
       \/ srvSessions = <<2, 1>> /\ srvMsgs = <<2, 0>>
    /\ sessions = <<>>
    /\ currentSession = NoSession
    /\ messages = <<>>
    /\ isLoading = FALSE
    /\ isInitialLoading = TRUE
    /\ deletingIds = {}
    /\ calls = {Call(0, "init", NoSession, NoSession)}
    /\ ops = 0
    /\ completed = {}
    /\ app = [user |-> "employee", isLoading |-> FALSE, initialized |-> TRUE]
    /\ login = FreshLogin
    /\ admin = FreshAdmin
    /\ auth = [NoAuth EXCEPT !.token = TRUE, !.user = "employee"]

ChatNext ==
    \/ \E c \in calls : InitialDataServed(c)
    \/ \E c \in calls : ChatSessionServed(c)
    \/ \E c \in calls : ChatSessionsServed(c)
    \/ \E c \in calls : CreateServed(c)
    \/ \E c \in calls : DeleteServed(c)
    \/ \E c \in calls : SendServed(c)
    \/ \E c \in calls : DeleteDocumentServed(c)
    \/ \E c \in calls : loadInitialDataResolves(c)
    \/ \E c \in calls : loadInitialDataRejects(c)
    \/ \E s \in 1..MaxSessions : loadSession(s)
    \/ \E c \in calls : loadSessionResolves(c)
    \/ \E c \in calls : loadSessionRejects(c)
    \/ createNewChat
    \/ \E c \in calls : createNewChatResolves(c)
    \/ \E c \in calls : createNewChatRejects(c)
    \/ \E s \in 1..MaxSessions : deleteSession(s)
    \/ \E c \in calls : deleteSessionResolves(c)
    \/ \E c \in calls : deleteSessionRejects(c)
    \/ handleSubmit
    \/ SuggestionClick
    \/ \E c \in calls : SendResolves(c)
    \/ \E c \in calls : SendRejects(c)
    \/ \E c \in calls : ReloadResolves(c)
    \/ \E c \in calls : ReloadRejects(c)
    \/ \E c \in calls : loadSessionsResolves(c)
    \/ \E c \in calls : loadSessionsRejects(c)
    \/ openDocumentManager
    \/ onClose
    \/ \E d \in documents : handleDelete(d)
    \/ \E c \in calls : handleDeleteResolves(c)
    \/ \E c \in calls : handleDeleteRejects(c)
    \/ UploadAccepted
    \/ \E c \in calls : FileUploaded(c)
    \/ \E c \in calls : UploadFailed(c)
    \/ \E i \in 1..Len(docsReqs) : DocumentsServed(i)
    \/ \E i \in 1..Len(docsReqs) : LoadDocumentsResolves(i)
    \/ \E i \in 1..Len(docsReqs) : LoadDocumentsRejects(i)

ChatSpec == ChatInit /\ [][ChatNext]_vars

\* the page is loaded: the App has mounted, nothing or a token with its user is
\* stored; the backend holds two documents and no chat session or two
AppStart(used) ==
    /\ uploadingFiles = <<>>
    /\ loops = [u \in Slots |-> FreeLoop]
    /\ now = 1
    /\ showDocumentManager = FALSE
    /\ srvDocs = {ServerDocumentId(0), ServerDocumentId(MaxOps + 1)}
    /\ documents = {}
    /\ docsReqs = <<>>
    /\ \/ srvSessions = <<>> /\ srvMsgs = <<>>
       \/ srvSessions = <<2, 1>> /\ srvMsgs = <<2, 0>>
    /\ sessions = <<>>
    /\ currentSession = NoSession
    /\ messages = <<>>
    /\ isLoading = FALSE
    /\ isInitialLoading = FALSE
    /\ deletingIds = {}
    /\ calls = {}
    /\ ops = used
    /\ completed = {}
    /\ app = [user |-> NoUser, isLoading |-> TRUE, initialized |-> FALSE]
    /\ login = FreshLogin
    /\ admin = FreshAdmin
    /\ \/ auth = NoAuth
       \/ \E role \in Roles : auth = [NoAuth EXCEPT !.token = TRUE, !.user = role]

AppInit == AppStart(0)

AppNext ==
    \/ initializeAuth
    \/ \E c \in calls, isValid \in BOOLEAN : VerifyResolves(c, isValid)
    \/ \E c \in calls : VerifyRejects(c)
    \/ \E name \in {"username", "password"}, value \in {"", "x"} :
         handleInputChange(name, value)
    \/ LoginSubmit
    \/ \E c \in calls, role \in Roles : LoginResolves(c, role)
    \/ \E c \in calls : LoginRejects(c)
    \/ handleLogout
    \/ LogoutCallback
    \/ \E c \in calls : AdminDashboardServed(c)
    \/ \E c \in calls : GlobalDocumentsServed(c)
    \/ \E c \in calls : DeleteGlobalServed(c)
    \/ \E c \in calls : loadDashboardDataResolves(c)
    \/ \E c \in calls : loadDashboardDataRejects(c)
    \/ \E tab \in AdminTabs : setActiveTab(tab)
    \/ \E d \in admin.globalDocuments : handleDeleteDocument(d)
    \/ \E c \in calls : handleDeleteDocumentResolves(c)
    \/ \E c \in calls : handleDeleteDocumentRejects(c)
    \/ GlobalUploadAccepted
    \/ \E c \in calls : GlobalFileUploaded(c)
    \/ \E c \in calls : GlobalUploadFailed(c)
    \/ \E c \in calls : InitialDataServed(c)
    \/ \E c \in calls : ChatSessionServed(c)
    \/ \E c \in calls : ChatSessionsServed(c)
    \/ \E c \in calls : SendServed(c)
    \/ \E c \in calls : loadInitialDataResolves(c)
    \/ \E c \in calls : loadInitialDataRejects(c)
    \/ \E c \in calls : loadSessionResolves(c)
    \/ \E c \in calls : loadSessionRejects(c)
    \/ handleSubmit
    \/ SuggestionClick
    \/ \E c \in calls : SendResolves(c)
    \/ \E c \in calls : SendRejects(c)
    \/ \E c \in calls : ReloadResolves(c)
    \/ \E c \in calls : ReloadRejects(c)
    \/ \E c \in calls : loadSessionsResolves(c)
    \/ \E c \in calls : loadSessionsRejects(c)

AppSpec == AppInit /\ [][AppNext]_vars

\* a request in flight gets its next answer: the backend serves it, or its
\* response or rejection is handled
Answer(c) ==
    \/ \E isValid \in BOOLEAN : VerifyResolves(c, isValid)
    \/ VerifyRejects(c)
    \/ \E role \in Roles : LoginResolves(c, role)
    \/ LoginRejects(c)
    \/ AdminDashboardServed(c) \/ GlobalDocumentsServed(c) \/ DeleteGlobalServed(c)
    \/ loadDashboardDataResolves(c) \/ loadDashboardDataRejects(c)
    \/ handleDeleteDocumentResolves(c) \/ handleDeleteDocumentRejects(c)
    \/ GlobalFileUploaded(c) \/ GlobalUploadFailed(c)
    \/ InitialDataServed(c) \/ ChatSessionServed(c) \/ ChatSessionsServed(c)
    \/ SendServed(c)
    \/ loadInitialDataResolves(c) \/ loadInitialDataRejects(c)
    \/ loadSessionResolves(c) \/ loadSessionRejects(c)
    \/ SendResolves(c) \/ SendRejects(c)
    \/ ReloadResolves(c) \/ ReloadRejects(c)
    \/ loadSessionsResolves(c) \/ loadSessionsRejects(c)

\* fairness the claim about the loading flags assumes: the App runs its mount
\* effect and each request eventually resolves or rejects; the user has one
\* operation fewer than in AppSpec
FairAppSpec ==
    /\ AppStart(1)
    /\ [][AppNext]_vars
    /\ WF_vars(initializeAuth)
    /\ WF_vars(\E c \in calls : Answer(c))

\* ------------------------------------------------------------------ claims
Terminal == {"ready", "error"}

Rank(s) == IF s = "uploading" THEN 0 ELSE IF s = "processing" THEN 1 ELSE 2

\* the entry stored under key k keeps its place in the status order
EntryMonotonic(k) ==
    (k \in DOMAIN uploadingFiles /\ k \in DOMAIN uploadingFiles') =>
        /\ Rank(uploadingFiles'[k].status) >= Rank(uploadingFiles[k].status)
        /\ uploadingFiles[k].status \in Terminal =>
               uploadingFiles'[k].status = uploadingFiles[k].status

\* the uploads that share the key of upload u
SameKey(u) == {v \in Started : loops[v].fileId = loops[u].fileId}

\* C1: the status stored under an upload's local key never regresses, and a
\* ready or error status is never changed to another value
C1_StatusNeverRegresses ==
    [][\A u \in Started : EntryMonotonic(loops[u].fileId)]_vars

\* C1, for the uploads that share their key with no other upload
C1_UnsharedKeyNeverRegresses ==
    [][\A u \in Started : SameKey(u) = {u} => EntryMonotonic(loops[u].fileId)]_vars

\* the step answers a status fetch of u without a terminal status or a failure
NonTerminalAnswer(u) ==
    /\ loops'[u].statusReqs < loops[u].statusReqs
    /\ loops'[u].outcome \notin {"ready", "error", "comm-error"}

\* C2: a poll loop issues at most 60 status fetches; when the 60th is answered
\* with a non-terminal status the entry becomes error with the timeout
\* message, and no fetch is in flight or scheduled from then on
C2_AtMostSixtyFetches ==
    /\ [](\A u \in Slots :
            /\ loops[u].fetches <= maxAttempts
            /\ loops[u].outcome = "timeout" =>
                  /\ loops[u].statusReqs = 0
                  /\ loops[u].pollTimer = NoTimer)
    /\ [][\A u \in Slots :
            (loops[u].fetches = maxAttempts /\ NonTerminalAnswer(u)) =>
                /\ loops'[u].outcome = "timeout"
                /\ loops'[u].statusReqs = 0
                /\ loops'[u].pollTimer = NoTimer
                /\ loops[u].fileId \in DOMAIN uploadingFiles'
                /\ uploadingFiles'[loops[u].fileId].status = "error"
                /\ uploadingFiles'[loops[u].fileId].message = MsgTimeout]_vars

\* an upload timed out after its 60th fetch and its entry shows the timeout
C2_Witness ==
    \E u \in Started :
        /\ loops[u].outcome = "timeout"
        /\ loops[u].fetches = maxAttempts
        /\ loops[u].fileId \in DOMAIN uploadingFiles
        /\ uploadingFiles[loops[u].fileId].message = MsgTimeout

\* the step is taken on behalf of upload a alone
ActsFor(a) ==
    /\ loops'[a] # loops[a]
    /\ \A c \in Slots \ {a} : loops'[c] = loops[c]

\* the entry stored under key k is left as it is
EntryUntouched(k) ==
    /\ (k \in DOMAIN uploadingFiles) <=> (k \in DOMAIN uploadingFiles')
    /\ k \in DOMAIN uploadingFiles => uploadingFiles'[k] = uploadingFiles[k]

\* C3: no step taken for upload a changes the entry stored under the key of
\* another upload b whose key differs from a's
C3_OnlyOwnKeyWritten ==
    [][\A a \in Started : \A b \in Started \ {a} :
          (ActsFor(a) /\ loops[b].fileId # loops[a].fileId) =>
              EntryUntouched(loops[b].fileId)]_vars

\* a status fetch of one upload failed while another upload, under another
\* key, is still being processed
C3_Witness ==
    \E a \in Started : \E b \in Started \ {a} :
        /\ loops[a].fileId # loops[b].fileId
        /\ loops[a].outcome = "comm-error"
        /\ loops[b].statusReqs > 0
        /\ loops[b].fileId \in DOMAIN uploadingFiles
        /\ uploadingFiles[loops[b].fileId].status = "processing"

\* the entry of upload u is in the mapping with status ready
ShownReady(u) ==
    /\ loops[u].fileId \in DOMAIN uploadingFiles
    /\ uploadingFiles[loops[u].fileId].status = "ready"

\* the success callback of upload u is invoked as the claim C4 states
CallbackDiscipline(u) ==
    /\ loops[u].callbacks <= 1
    /\ loops[u].graceTimer # NoTimer => ShownReady(u)
    /\ loops[u].callbacks = 1 =>
          /\ loops[u].outcome = "ready"
          /\ loops[u].readyFor >= GraceDelay
    /\ loops[u].outcome \in {"error", "timeout", "comm-error", "upload-failed"} =>
          /\ loops[u].callbacks = 0
          /\ loops[u].graceTimer = NoTimer
    /\ (loops[u].outcome = "ready" /\ loops[u].graceTimer = NoTimer) =>
          loops[u].callbacks = 1

\* C4: the success callback of an upload is invoked exactly once, after a
\* grace period of 3 time units during which the entry stays in the mapping
\* with status ready, together with the removal of the entry, and never for
\* an upload that ended in error or timeout
C4_CallbackOnceAfterGrace ==
    /\ [](\A u \in Started : CallbackDiscipline(u))
    /\ [][\A u \in Started :
            loops'[u].callbacks > loops[u].callbacks =>
                /\ ShownReady(u)
                /\ loops[u].fileId \notin DOMAIN uploadingFiles']_vars

\* C4, for the uploads that share their key with no other upload
C4_UnsharedKeyCallback ==
    /\ [](\A u \in Started : SameKey(u) = {u} => CallbackDiscipline(u))
    /\ [][\A u \in Started :
            (SameKey(u) = {u} /\ loops'[u].callbacks > loops[u].callbacks) =>
                /\ ShownReady(u)
                /\ loops[u].fileId \notin DOMAIN uploadingFiles']_vars

\* ids whose deleteSession call completed successfully
Deleted == {m[2] : m \in {x \in completed : x[1] = "delete"}}

\* the step completes a deleteSession(s) call successfully
DeleteCompletes(s) == <<"delete", s>> \in completed' /\ <<"delete", s>> \notin completed

\* C5: once deleteSession(S) has completed successfully, S is not in the session
\* list and is never the active session, whatever selections, creations and
\* sends ran beside the delete; if S was active when the delete completed,
\* currentSession is null and the message list is empty
C5_DeletedSessionNeverActive ==
    /\ [](\A s \in Deleted : s \notin Listed(sessions) /\ currentSession # s)
    /\ [][\A s \in 1..MaxSessions :
            (DeleteCompletes(s) /\ currentSession = s) =>
                (currentSession' = NoSession /\ messages' = <<>>)]_vars

\* no call of the dashboard awaits a response
Quiet == calls = {} /\ docsReqs = <<>>

\* the create / delete / upload-success / delete-document mutations that completed
Mutations == {m \in completed : m[1] \in {"create", "delete", "upload", "deleteDoc"}}

\* C6: once a mutation has completed and every request has resolved, the session
\* list and the document list of the client equal what a fresh fetch returns:
\* the same sessions, each listed once, and the same documents
C6_ListsEqualFreshFetch ==
    (Quiet /\ Mutations # {} /\ Rejected \notin completed) =>
        /\ Listed(sessions) = Listed(srvSessions)
        /\ Len(sessions) = Len(srvSessions)
        /\ documents = srvDocs

\* the step is the return of a sendMessage call whose send request was answered
SendReturns == \E c \in calls : c.op = "list" /\ (\A d \in calls' : d.id # c.id)

\* C7: when sendMessage returns, every request so far was answered and no other
\* send is in progress, the displayed transcript is the message sequence the
\* backend holds for the session that is active at that moment
C7_TranscriptMatchesServer ==
    [][(/\ SendReturns
        /\ Rejected \notin completed'
        /\ InFlight({"send", "reload", "list"})' = {}
        /\ currentSession' \in Listed(srvSessions')) =>
            messages' = Transcript(currentSession', srvMsgs'[currentSession'])]_vars

\* C8: at most one status fetch of an upload is in flight, and the next one
\* is scheduled or issued only when none is
C8_FetchesSequential ==
    \A u \in Slots :
        /\ loops[u].statusReqs <= 1
        /\ loops[u].pollTimer # NoTimer => loops[u].statusReqs = 0

\* a second status fetch is in flight, after the first one was answered
C8_Witness ==
    \E u \in Started : loops[u].statusReqs = 1 /\ loops[u].attempts >= 1

\* the poll loop of upload u has come to rest
AtRest(u) ==
    /\ loops[u].statusReqs = 0
    /\ loops[u].pollTimer = NoTimer
    /\ \/ loops[u].fileId \notin DOMAIN uploadingFiles
       \/ uploadingFiles[loops[u].fileId].status \in Terminal

\* C9: every started poll loop eventually has no fetch in flight and none
\* scheduled, its entry being terminal or removed
C9_PollLoopTerminates ==
    \A u \in Slots : (loops[u].fetches > 0) ~> AtRest(u)

\* a poll loop that had to wait for a further fetch has come to rest
C9_Witness ==
    \E u \in Started : loops[u].attempts >= 1 /\ AtRest(u)

\* the step is the failure of a status fetch of u
FetchFailed(u) ==
    /\ loops'[u].statusReqs < loops[u].statusReqs
    /\ loops'[u].outcome = "comm-error"

\* C10: a failed status fetch ends the poll loop: the entry becomes error with
\* the communication-error message and no fetch is issued afterwards
C10_FetchFailureEndsLoop ==
    /\ [][\A u \in Slots :
            FetchFailed(u) =>
                /\ loops'[u].statusReqs = 0
                /\ loops'[u].pollTimer = NoTimer
                /\ loops'[u].fetches = loops[u].fetches
                /\ loops[u].fileId \in DOMAIN uploadingFiles'
                /\ uploadingFiles'[loops[u].fileId].status = "error"
                /\ uploadingFiles'[loops[u].fileId].message = MsgCommError]_vars
    /\ [][\A u \in Slots :
            loops[u].outcome = "comm-error" =>
                /\ loops'[u].fetches = loops[u].fetches
                /\ loops'[u].statusReqs = 0
                /\ loops'[u].pollTimer = NoTimer]_vars

\* a status fetch failed after the loop had already waited once
C10_Witness ==
    \E u \in Started :
        /\ loops[u].outcome = "comm-error"
        /\ loops[u].attempts >= 1
        /\ uploadingFiles[loops[u].fileId].message = MsgCommError

\* the step is the rejection of the upload request of u
UploadFails(u) == loops[u].uploadReq /\ loops'[u].outcome = "upload-failed"

\* the step is the success of the upload request of u
UploadSucceeds(u) ==
    loops[u].uploadReq /\ ~loops'[u].uploadReq /\ loops'[u].outcome # "upload-failed"

\* what a step that answers the upload request of u does to the entry of u
UploadAnswerWrites(u) ==
    LET k == loops[u].fileId IN
    /\ UploadFails(u) =>
          /\ k \in DOMAIN uploadingFiles /\ uploadingFiles[k].status = "uploading"
          /\ uploadingFiles'[k].status = "error"
          /\ uploadingFiles'[k].message =
                IF loops'[u].detail THEN MsgDetail ELSE MsgUploadFallback
    /\ UploadSucceeds(u) =>
          /\ loops[u].fetches = 0
          /\ loops'[u].documentId = ServerDocumentId(u)
          /\ uploadingFiles'[k].status = "processing"
          /\ uploadingFiles'[k].document_id = ServerDocumentId(u)

\* an upload whose request failed issues no status fetch and no callback, and
\* a status fetch is issued only for an upload that has its document id
NoPollAfterUploadFailure(u) ==
    /\ loops[u].outcome = "upload-failed" =>
          /\ loops[u].fetches = 0
          /\ loops[u].statusReqs = 0
          /\ loops[u].pollTimer = NoTimer
          /\ loops[u].graceTimer = NoTimer
          /\ loops[u].callbacks = 0
    /\ loops[u].fetches > 0 => loops[u].documentId = ServerDocumentId(u)

\* C11: a failed upload request takes the entry directly from uploading to
\* error, with the server detail when present and the fallback otherwise, and
\* that upload never fetches a status nor invokes the success callback; a
\* successful one sets the entry to processing with the server-assigned
\* document id before the first status fetch
C11_UploadAnswer ==
    /\ [][\A u \in Started : UploadAnswerWrites(u)]_vars
    /\ [](\A u \in Started : NoPollAfterUploadFailure(u))

\* C11, for the uploads that share their key with no other upload
C11_UnsharedKeyUploadAnswer ==
    /\ [][\A u \in Started : SameKey(u) = {u} => UploadAnswerWrites(u)]_vars
    /\ [](\A u \in Started : NoPollAfterUploadFailure(u))

\* the entry under key k is shown by the mounted upload view
Visible(k) == showDocumentManager /\ k \in DOMAIN uploadingFiles

\* the entry of upload u is shown with status error
ShownError(u) ==
    /\ Visible(loops[u].fileId)
    /\ uploadingFiles[loops[u].fileId].status = "error"

\* the step is the user closing the document manager
UserCloses == showDocumentManager /\ ~showDocumentManager' /\ UNCHANGED <<loops, docsReqs>>

\* C12: an error entry stays in the mapping and visible: no step of a poll loop
\* and no success callback of another upload removes or hides it (stated for
\* the uploads that share their key with no other upload)
C12_ErrorEntryStaysVisible ==
    [][\A u \in Started :
         (SameKey(u) = {u} /\ ShownError(u) /\ ~UserCloses) => ShownError(u)']_vars

\* C12, on the mapping alone: no step removes or changes an error entry
C12_ErrorEntryStaysInMapping ==
    [][\A u \in Started :
         (/\ SameKey(u) = {u}
          /\ loops[u].fileId \in DOMAIN uploadingFiles
          /\ uploadingFiles[loops[u].fileId].status = "error") =>
              /\ loops[u].fileId \in DOMAIN uploadingFiles'
              /\ uploadingFiles'[loops[u].fileId] = uploadingFiles[loops[u].fileId]]_vars

\* C13: two uploads in progress never share their key of the status mapping
C13_KeysPairwiseDistinct ==
    \A u \in Started, v \in Started :
        (u # v /\ Active(u) /\ Active(v)) => loops[u].fileId # loops[v].fileId

\* the poll loop of u has ended for one of the reasons the code knows
LoopEnded(u) ==
    \/ loops[u].outcome \in {"ready", "error", "comm-error", "upload-failed"}
    \/ loops[u].outcome = "timeout" /\ loops[u].attempts = maxAttempts

\* the poll loop of u is going on: a fetch is in flight or the next is scheduled
LoopGoesOn(u) == loops[u].statusReqs > 0 \/ loops[u].pollTimer # NoTimer

\* C14: a started poll loop stops fetching only at a terminal status, a failed
\* fetch or the exhausted attempt bound; whatever else happens (the view is
\* closed or unmounted), a scheduled fetch is issued
C14_NoCancel ==
    /\ [](\A u \in Slots : loops[u].fetches > 0 => (LoopGoesOn(u) \/ LoopEnded(u)))
    /\ \A u \in Slots : (loops[u].pollTimer # NoTimer) ~> (loops[u].statusReqs > 0)

\* the view is closed and a loop that has already waited once is fetching
C14_Witness ==
    /\ ~showDocumentManager
    /\ \E u \in Started : loops[u].statusReqs > 0 /\ loops[u].attempts >= 1

\* the step issues a status fetch of u
FetchIssued(u) == loops'[u].fetches > loops[u].fetches

\* the step answers a status fetch of u with a status
FetchAnswered(u) ==
    loops'[u].statusReqs < loops[u].statusReqs /\ loops'[u].outcome # "comm-error"

\* the entry of u after an answered fetch holds the fetched snapshot and
\* nothing of the entry before; the answer that exhausts the attempt bound
\* leaves the fetched snapshot with the timeout error put over it
SnapshotReplaced(u) ==
    LET e == uploadingFiles'[loops[u].fileId] IN
    /\ loops[u].fileId \in DOMAIN uploadingFiles'
    /\ e.document_id = loops[u].documentId
    /\ IF loops'[u].outcome = "timeout"
       THEN e.status = "error" /\ e.message = MsgTimeout
       ELSE /\ e.message = MsgServer
            /\ e.status = IF loops'[u].outcome \in {"ready", "error"}
                          THEN loops'[u].outcome ELSE "processing"

\* C15, as stated: every status fetch, the first one included, is issued 2 time
\* units or more after the upload response or the previous answer, and every
\* answered fetch replaces the entry wholesale
C15_EveryFetchDelayed ==
    [][\A u \in Started :
         /\ FetchIssued(u) => loops[u].waited >= PollDelay
         /\ FetchAnswered(u) => SnapshotReplaced(u)]_vars

\* C15, amended: the first status fetch is issued in the step of the upload
\* response, without delay; every later fetch is issued 2 time units or more
\* after the previous answer; every answered fetch replaces the entry wholesale
C15_LaterFetchesDelayed ==
    [][\A u \in Started :
         /\ (FetchIssued(u) /\ loops[u].fetches = 0) =>
                (loops[u].uploadReq /\ ~loops'[u].uploadReq /\ loops[u].waited = 0)
         /\ (FetchIssued(u) /\ loops[u].fetches > 0) => loops[u].waited >= PollDelay
         /\ FetchAnswered(u) => SnapshotReplaced(u)]_vars

\* a second status fetch is in flight, issued after the delay
C15_Witness ==
    \E u \in Started :
        loops[u].fetches = 2 /\ loops[u].statusReqs = 1 /\ loops[u].waited = PollDelay

\* the sendMessage calls that have not returned: the send request or one of
\* its follow-up re-fetches is awaiting its response
SendsInProgress == InFlight({"send", "reload", "list"})

\* C16: a send is issued only for an active session and while no other send is
\* in progress, so at most one send is in flight, and isLoading is true
\* exactly while a send or its follow-up re-fetch is in progress
C16_OneSendAtATime ==
    /\ Cardinality(SendsInProgress) <= 1
    /\ isLoading <=> SendsInProgress # {}
    /\ \A c \in SendsInProgress : c.sid # NoSession

\* the step is the first failure of a request of the dashboard
FirstFailure == Rejected \notin completed /\ Rejected \in completed'

\* C17: a failed request of a user-triggered action puts an error message
\* before the user (stated for the first failure of a run)
C17_FailureShown ==
    [][FirstFailure => Alerted \in completed']_vars

\* a login request is sent in this step
LoginSent == \E c \in calls' \ calls : c.op = "login"

\* C18: a login request is never sent while the username or the password is
\* empty, nor while a previous login request is in flight: a request is sent
\* only in a step that starts with both fields non-empty, isLoading false and
\* no login request awaiting its answer, and at most one is ever in flight.
C18_LoginSentOnlyWhenEnabled ==
    /\ [](Cardinality(InFlight({"login"})) <= 1)
    /\ [][LoginSent =>
            /\ login.credentials.username # ""
            /\ login.credentials.password # ""
            /\ ~login.isLoading
            /\ InFlight({"login"}) = {}]_vars

\* a login request is in flight, sent with both fields filled in
C18_Witness ==
    /\ InFlight({"login"}) # {}
    /\ login.isLoading
    /\ login.credentials.username # ""
    /\ login.credentials.password # ""

\* initializeAuth completes in this step: the loading flag is cleared
InitializationCompletes == app.isLoading /\ ~app'.isLoading

\* C19: at startup verifyToken is requested at most once and only when a token
\* is stored; in the step that completes the initialization the user is
\* restored exactly when verifyToken gave true, and the login view is shown
\* otherwise; when verifyToken threw, logout was called in that step (the
\* stored state is cleared) and the login view is shown; the loading flag is
\* set only while initializeAuth has not run or awaits verifyToken.
C19_StartupVerification ==
    /\ [](auth.verifications <= 1)
    /\ [](app.isLoading => (~app.initialized \/ InFlight({"verify"}) # {}))
    /\ [][/\ auth'.verifications > auth.verifications => (auth.token /\ ~app.initialized)
          /\ InitializationCompletes =>
               /\ app'.user # NoUser <=> auth'.verifyResult = "true"
               /\ app'.user # NoUser => (app'.user = auth.user /\ View' = auth.user)
               /\ app'.user = NoUser => View' = "login"
               /\ auth'.verifyResult = "threw" =>
                    /\ auth'.logouts > auth.logouts
                    /\ ~auth'.token
                    /\ View' = "login"
               /\ auth'.verifyResult = None => (~auth.token /\ auth'.verifications = 0)]_vars

\* the initialization completed with a verified token: the dashboard of the
\* stored user is shown and no login was made
C19_Witness ==
    /\ ~app.isLoading
    /\ auth.verifications = 1
    /\ auth.verifyResult = "true"
    /\ View = auth.user
    /\ View \in Roles
    /\ ops = 0

\* handleDeleteDocument continues in this step after call c was answered
DeleteAnswerHandled(c) == c \in InFlight({"adminDelete"}) /\ c \notin calls'

\* a loadDashboardData call of the instance that made call c starts in this step
ReloadStarts(c) ==
    \E l \in calls' \ calls : l.op = "adminLoad" /\ l.cur = c.cur /\ l.st = "sent"

\* the dashboard keeps the stats and the list it shows
DashboardDataKept ==
    admin'.stats = admin.stats /\ admin'.globalDocuments = admin.globalDocuments

\* the stats and the list become those of the two responses of one load
ReplacedFromResponses ==
    \E l \in Answered({"adminLoad"}) :
       /\ l \notin calls'
       /\ l.cur = admin.mount
       /\ admin'.stats = l.n
       /\ admin'.globalDocuments = l.docs

\* C20: when the delete request of a global document succeeds,
\* handleDeleteDocument starts loadDashboardData in the same step and leaves
\* the stats and the list as they are; when it fails no load starts and both
\* stay unchanged; the stats and the list of a mounted dashboard change only
\* in a step that replaces both with the two responses of one
\* loadDashboardData call.
C20_DeleteReloads ==
    [][/\ \A c \in calls :
            DeleteAnswerHandled(c) =>
               /\ DashboardDataKept
               /\ c.st = "ok" => ReloadStarts(c)
               /\ c.st # "ok" => (~ReloadStarts(c) /\ admin'.isLoading = admin.isLoading)
       /\ (admin'.mount = admin.mount /\ ~DashboardDataKept) => ReplacedFromResponses]_vars

\* a delete succeeded and the reload it started has put the list and the
\* stats of the backend on the dashboard
C20_Witness ==
    /\ \E id \in 1..MaxOps : <<"adminDelete", id>> \in completed
    /\ AdminMay
    /\ InFlight({"adminLoad", "adminDelete"}) = {}
    /\ admin.globalDocuments = srvDocs
    /\ admin.stats = Cardinality(srvDocs)
    /\ Cardinality(srvDocs) = 1

\* the mounted dashboard shows another tab after this step
TabSwitched == admin'.mount = admin.mount /\ admin'.activeTab # admin.activeTab

\* C21: switching the tab of the admin dashboard is local view state: the
\* step issues no backend request (the calls are unchanged, the backend too)
\* and leaves stats, the global document list and the loading flag unchanged.
C21_TabSwitchIsLocal ==
    [][TabSwitched =>
         /\ calls' = calls
         /\ srvDocs' = srvDocs
         /\ DashboardDataKept
         /\ admin'.isLoading = admin.isLoading
         /\ admin'.mounted = admin.mounted]_vars

\* the loaded dashboard shows the documents tab, reached by a tab switch
C21_Witness ==
    /\ AdminMay
    /\ admin.activeTab = "documents"
    /\ admin.stats # NoStats
    /\ admin.globalDocuments # {}

\* C22: the App shows the admin dashboard only when the authenticated user's
\* role is admin, the employee dashboard for an authenticated user of another
\* role, and no dashboard while the user is null (login view) or while the
\* initial auth check is loading.
C22_RoleRouting ==
    /\ admin.mounted => (app.user = "admin" /\ ~app.isLoading)
    /\ (app.user = "admin" /\ ~app.isLoading) => (admin.mounted /\ View = "admin")
    /\ (app.user \in Roles \ {"admin"} /\ ~app.isLoading) =>
          (View = "employee" /\ ~admin.mounted)
    /\ app.user # NoUser => (auth.token /\ auth.user = app.user)
    /\ app.user = NoUser => (~admin.mounted /\ View \in {"login", "loading"})
    /\ app.isLoading => (~admin.mounted /\ View = "loading")

\* an employee is signed in after an admin was: the employee view is shown and
\* the admin dashboard is no longer mounted
C22_Witness ==
    /\ View = "employee"
    /\ auth.user = "employee"
    /\ admin.mount >= 1
    /\ ~admin.mounted

\* authService.logout() runs in this step: the stored token is cleared
LogoutHappens == auth.token /\ ~auth'.token

\* the user of the App becomes non-null in this step
UserAppears == app.user = NoUser /\ app'.user # NoUser

\* C23: after a logout, from the header or through the registered callback,
\* the user of the App is null and the login view is shown; the user becomes
\* non-null again only in the step that handles a successful login or a
\* startup verification that gave true.
C23_LogoutClearsUser ==
    /\ [](~auth.token /\ ~app.isLoading => View = "login")
    /\ [][/\ LogoutHappens => (app'.user = NoUser /\ View' = "login" /\ ~admin'.mounted)
          /\ UserAppears =>
               /\ \E c \in calls \ calls' : c.op \in {"login", "verify"}
               /\ app'.user = auth'.user
               /\ auth'.token
               /\ (\E c \in calls \ calls' : c.op = "verify") => auth'.verifyResult = "true"]_vars

\* an admin was signed in and logged out: the login view is shown
C23_Witness ==
    /\ View = "login"
    /\ auth.logouts >= 1
    /\ ~auth.token
    /\ admin.mount >= 1
    /\ ops >= 1

\* C24: whenever currentSession is non-null it is a member of the session
\* list of the client.
C24_CurrentSessionListed ==
    currentSession # NoSession => currentSession \in Listed(sessions)

\* the response of the selection made with call c is applied in this step
SelectionApplied(c) == c \in Answered({"load"}) /\ c \notin calls' /\ c.id > 0

\* a selection made after call c has already been applied
LaterSelectionApplied(c) ==
    \E j \in (c.id + 1)..MaxOps : <<"select", j>> \in completed

\* C25: a late response for an earlier selection never overrides a later
\* selection: once the response of a later selection has been applied, the
\* response of an earlier one does not change the active session, so that
\* after both responses the active session is the last one selected.
C25_LastSelectionWins ==
    [][\A c \in calls :
         (SelectionApplied(c) /\ LaterSelectionApplied(c)) =>
             currentSession' = currentSession]_vars

\* the transcript shown is one a getChatSession response gave for session s
TranscriptOf(s) == \E n \in 0..(2 * MaxOps + 2) : messages = Transcript(s, n)

\* C26: currentSession and messages are updated together: messages is empty,
\* or it is a message sequence of the session that currentSession holds,
\* never the messages of another session; without a session it is empty.
C26_MessagesOfCurrentSession ==
    /\ [](currentSession = NoSession => messages = <<>>)
    /\ [](currentSession # NoSession => TranscriptOf(currentSession))
    /\ [][(currentSession' # currentSession \/ messages' # messages) =>
            \/ currentSession' = NoSession /\ messages' = <<>>
            \/ \E c \in calls \ calls' :
                  /\ c.op = "create"
                  /\ currentSession' = c.sid /\ messages' = <<>>
            \/ \E c \in calls :
                  /\ c.op \in {"load", "reload"} /\ c.st = "ok"
                  /\ (c \notin calls' \/ c.op = "reload")
                  /\ currentSession' = c.sid
                  /\ messages' = Transcript(c.sid, c.n)]_vars

\* the user selected a session with messages and its response was applied
C26_Witness ==
    /\ currentSession # NoSession
    /\ Len(messages) > 0
    /\ messages = Transcript(currentSession, srvMsgs[currentSession])
    /\ \E j \in 1..MaxOps : <<"select", j>> \in completed

\* loadDashboardData ends in this step for call c of the mounted dashboard
DashboardLoadEnds(c) ==
    c \in InFlight({"adminLoad"}) /\ c \notin calls' /\ OwnInstance(c) /\ admin'.mounted

\* loadInitialData ends in this step for call c of the rendered dashboard
InitialLoadEnds(c) == c \in InFlight({"init"}) /\ c \notin calls' /\ app' = app

\* loadSession is called for the auto-selected session in this step
AutoSelected(s) ==
    \E l \in calls' \ calls : l.op = "load" /\ l.id = 0 /\ l.sid = s /\ l.st = "sent"

\* C27: the paired loads are all-or-nothing. loadDashboardData replaces stats
\* and globalDocuments with the two responses of its call when both requests
\* succeeded and leaves both unchanged when one failed; loadInitialData sets
\* sessions and documents from its two responses or neither, and calls
\* loadSession for the most recent session only when both requests succeeded
\* and the session list is not empty.
C27_PairedLoadsAllOrNothing ==
    [][/\ \A c \in calls :
            DashboardLoadEnds(c) =>
               IF c.st = "ok"
               THEN admin'.stats = c.n /\ admin'.globalDocuments = c.docs
               ELSE DashboardDataKept
       /\ \A c \in calls :
            InitialLoadEnds(c) =>
               IF c.st = "ok"
               THEN /\ sessions' = c.list /\ documents' = c.docs
                    /\ Len(c.list) > 0 <=> AutoSelected(c.list[1])
               ELSE /\ sessions' = sessions /\ documents' = documents
                    /\ \A s \in 1..MaxSessions : ~AutoSelected(s)
       /\ \A s \in 1..MaxSessions :
            AutoSelected(s) => \E c \in Answered({"init"}) : InitialLoadEnds(c)
       /\ (admin'.mount = admin.mount /\ ~DashboardDataKept) =>
             \E c \in Answered({"adminLoad"}) : DashboardLoadEnds(c)]_vars

\* an employee dashboard has loaded both lists and auto-selected the most
\* recent session, after an admin dashboard whose load failed kept neither
C27_Witness ==
    /\ View = "employee"
    /\ ~isInitialLoading
    /\ sessions = srvSessions
    /\ documents = srvDocs
    /\ documents # {}
    /\ Len(sessions) > 0
    /\ currentSession = sessions[1]
    /\ admin.mount >= 1
    /\ ~admin.isLoading
    /\ admin.stats = NoStats
    /\ admin.globalDocuments = {}
    /\ Rejected \in completed

\* C28: every loading flag is eventually cleared whatever the outcome, when
\* each request eventually resolves or rejects: Login.isLoading,
\* EmployeeDashboard.isInitialLoading, EmployeeDashboard.isLoading and
\* AdminDashboard.isLoading (of the mounted dashboard) each lead to the flag
\* being false.
C28_LoadingFlagsCleared ==
    /\ login.isLoading ~> ~login.isLoading
    /\ isInitialLoading ~> ~isInitialLoading
    /\ isLoading ~> ~isLoading
    /\ (admin.mounted /\ admin.isLoading) ~> ~(admin.mounted /\ admin.isLoading)

\* a login failed and its flag is cleared again, the message is shown
C28_Witness ==
    /\ View = "login"
    /\ ~login.isLoading
    /\ login.error # None
    /\ Rejected \in completed
    /\ InFlight({"login"}) = {}

\* the delete requests in flight for document d
DeletesInFlight(d) == {c \in InFlight({"deleteDoc"}) : c.doc = d}

\* C29: in the DocumentList that is shown, a document id is in deletingIds
\* exactly while a delete request for it is in flight, and at most one delete
\* request per document id is in flight; onDocumentDeleted (which starts
\* loadDocuments) runs only in the step that handles a successful delete.
C29_DeletingIdsTrackRequests ==
    /\ [](showDocumentManager =>
            \A d \in documents \cup deletingIds :
               d \in deletingIds <=> DeletesInFlight(d) # {})
    /\ [](\A d \in srvDocs \cup documents : Cardinality(DeletesInFlight(d)) <= 1)
    /\ [][\A c \in InFlight({"deleteDoc"}) :
            (c \notin calls' /\ Len(docsReqs') > Len(docsReqs)) => c.st = "ok"]_vars

====
